---------------------------- MODULE Spec2Model ----------------------------
(***************************************************************************)
(* A model of the DNS responder of src/main.py (class Resolver) and of the *)
(* helpers of src/utils.                                                   *)
(*                                                                         *)
(* Python strings are TLA+ strings; a character is a string of length 1.   *)
(* Python integers are unbounded: the values that exceed TLC's 32-bit      *)
(* integers (1 << 32, 0xFFFFFFFF << n) are kept as sequences of base-256   *)
(* limbs, least significant first.                                         *)
(* A call that can raise returns a record [exc, val]: exc = "none" and the *)
(* value, or the name of the exception raised.                             *)
(***************************************************************************)
EXTENDS Integers, Sequences, FiniteSets, TLC

VARIABLES
    cached_ipv4,   \* Resolver._cached_ipv4 (None is the string NoneVal)
    cached_ipv6,   \* Resolver._cached_ipv6
    cache_time,    \* Resolver._cache_time
    now,           \* the wall clock read by time.time()
    pc,            \* per worker thread: where it is in resolve
    req,           \* per worker thread: the query it resolves
    loc,           \* per worker thread: the locals of _get_public_ips
    reply,         \* per worker thread: what resolve returned
    hist           \* bookkeeping: which refresh wrote each cache field

vars == <<cached_ipv4, cached_ipv6, cache_time, now, pc, req, loc, reply, hist>>

---------------------------------------------------------------------------
(* Strings *)

Ch(s, i) == SubSeq(s, i, i)

Upper == "ABCDEFGHIJKLMNOPQRSTUVWXYZ"
Lower == "abcdefghijklmnopqrstuvwxyz"
Digits == "0123456789"

RECURSIVE Find(_, _, _)
\* the first position from i on where string s holds character c, 0 when none
Find(c, s, i) ==
    IF i > Len(s) THEN 0 ELSE IF Ch(s, i) = c THEN i ELSE Find(c, s, i + 1)

\* position of character c in string s, 0 when absent
IndexOf(c, s) == Find(c, s, 1)

In(c, s) == Find(c, s, 1) # 0

RECURSIVE Cat(_)
\* concatenation of a sequence of strings
Cat(ss) == IF ss = <<>> THEN "" ELSE Head(ss) \o Cat(Tail(ss))

\* the lower-case form of each upper-case ASCII letter
LowerOf == [c \in {Ch(Upper, i) : i \in 1..Len(Upper)} |-> Ch(Lower, Find(c, Upper, 1))]

\* str.lower() on ASCII
lower_char(c) == IF c \in DOMAIN LowerOf THEN LowerOf[c] ELSE c
lower(s) == Cat([i \in 1..Len(s) |-> lower_char(Ch(s, i))])

RECURSIVE lstrip(_, _)
lstrip(s, chars) ==
    IF Len(s) > 0 /\ In(Ch(s, 1), chars) THEN lstrip(SubSeq(s, 2, Len(s)), chars) ELSE s

RECURSIVE rstrip(_, _)
rstrip(s, chars) ==
    IF Len(s) > 0 /\ In(Ch(s, Len(s)), chars) THEN rstrip(SubSeq(s, 1, Len(s) - 1), chars) ELSE s

\* str.strip(chars)
strip(s, chars) == rstrip(lstrip(s, chars), chars)

\* the ASCII characters str.strip() and int() treat as whitespace
Whitespace == " \t\n\r"

RECURSIVE split(_, _)
\* str.split(sep) for a one-character separator: never empty
split(s, sep) ==
    LET i == IndexOf(sep, s) IN
    IF i = 0 THEN <<s>>
    ELSE <<SubSeq(s, 1, i - 1)>> \o split(SubSeq(s, i + 1, Len(s)), sep)

RECURSIVE join(_, _)
\* sep.join(parts)
join(sep, parts) ==
    IF parts = <<>> THEN ""
    ELSE IF Len(parts) = 1 THEN parts[1]
    ELSE parts[1] \o sep \o join(sep, Tail(parts))

\* str.endswith(suffix)
endswith(s, suffix) ==
    Len(s) >= Len(suffix) /\ SubSeq(s, Len(s) - Len(suffix) + 1, Len(s)) = suffix

\* str.isdigit() restricted to ASCII
isdigit(s) == Len(s) > 0 /\ \A i \in 1..Len(s) : In(Ch(s, i), Digits)

RECURSIVE DecValue(_)
\* the value of a non-empty string of ASCII digits
DecValue(s) ==
    IF Len(s) = 0 THEN 0
    ELSE 10 * DecValue(SubSeq(s, 1, Len(s) - 1)) + (IndexOf(Ch(s, Len(s)), Digits) - 1)

RECURSIVE str(_)
\* str(n) for a small integer n
str(n) ==
    IF n < 0 THEN "-" \o str(-n)
    ELSE IF n < 10 THEN Ch(Digits, n + 1)
    ELSE str(n \div 10) \o Ch(Digits, (n % 10) + 1)

Ok(v) == [exc |-> "none", val |-> v]
Raise(e) == [exc |-> e, val |-> 0]

\* int(s), base 10: surrounding whitespace is ignored, one sign is allowed,
\* and single underscores may separate digits; anything else is a ValueError.
int(s) ==
    LET t == strip(s, Whitespace)
        signed == Len(t) > 0 /\ In(Ch(t, 1), "+-")
        body == IF signed THEN SubSeq(t, 2, Len(t)) ELSE t
        groups == split(body, "_")
        wellFormed == \A i \in 1..Len(groups) : isdigit(groups[i])
        mag == DecValue(Cat(groups))
    IN  IF ~wellFormed THEN Raise("ValueError")
        ELSE IF signed /\ Ch(t, 1) = "-" THEN Ok(-mag)
        ELSE Ok(mag)

---------------------------------------------------------------------------
(* Unbounded naturals: base-256 limbs, least significant first, no leading *)
(* zero limb; zero is the empty sequence.                                  *)

RECURSIVE BigNorm(_)
BigNorm(x) ==
    IF x # <<>> /\ x[Len(x)] = 0 THEN BigNorm(SubSeq(x, 1, Len(x) - 1)) ELSE x

RECURSIVE BigDouble(_, _)
\* 2*x + carry
BigDouble(x, carry) ==
    IF x = <<>> THEN (IF carry = 0 THEN <<>> ELSE <<carry>>)
    ELSE LET v == 2 * x[1] + carry
         IN  <<v % 256>> \o BigDouble(Tail(x), v \div 256)

RECURSIVE BigShlBits(_, _)
\* x << n for n < 8
BigShlBits(x, n) == IF n = 0 THEN x ELSE BigShlBits(BigDouble(x, 0), n - 1)

\* x << n: whole limbs first, then the remaining bits
BigShl(x, n) ==
    IF x = <<>> THEN <<>>
    ELSE BigShlBits([i \in 1..(n \div 8) |-> 0] \o x, n % 8)

RECURSIVE BigHalve(_)
\* x >> 1
BigHalve(x) ==
    IF x = <<>> THEN <<>>
    ELSE LET hi == IF Len(x) > 1 THEN x[2] % 2 ELSE 0
         IN  <<(x[1] \div 2) + 128 * hi>> \o BigHalve(Tail(x))

RECURSIVE BigShrBits(_, _)
\* x >> n for n < 8
BigShrBits(x, n) == IF n = 0 THEN x ELSE BigShrBits(BigHalve(x), n - 1)

\* x >> n: whole limbs first, then the remaining bits
BigShr(x, n) ==
    IF n \div 8 >= Len(x) THEN <<>>
    ELSE BigNorm(BigShrBits(SubSeq(x, (n \div 8) + 1, Len(x)), n % 8))

\* x & 0xFF
BigAnd255(x) == IF x = <<>> THEN 0 ELSE x[1]

RECURSIVE BigDec(_, _)
\* x - k, for x >= k and a small k
BigDec(x, k) ==
    IF k = 0 THEN x
    ELSE IF x[1] >= k THEN <<x[1] - k>> \o Tail(x)
    ELSE <<x[1] + 256 - k>> \o BigDec(Tail(x), 1)

\* x < k for a small k (k <= 256)
BigLess(x, k) == x = <<>> \/ (Len(x) = 1 /\ x[1] < k)

RECURSIVE BigDivMod10(_)
\* <<x div 10, x mod 10>>, the quotient not normalised
BigDivMod10(x) ==
    IF x = <<>> THEN <<(<<>>), 0>>
    ELSE LET up == BigDivMod10(Tail(x))
             v == up[2] * 256 + x[1]
         IN  <<(<<v \div 10>>) \o up[1], v % 10>>

RECURSIVE BigStr(_)
\* str(x)
BigStr(x) ==
    LET dm == BigDivMod10(x)
        q == BigNorm(dm[1])
    IN  IF q = <<>> THEN Ch(Digits, dm[2] + 1)
        ELSE BigStr(q) \o Ch(Digits, dm[2] + 1)

---------------------------------------------------------------------------
(* ipaddress.IPv4Address / IPv6Address: the parse succeeds or raises       *)
(* AddressValueError.                                                      *)

HexDigits == "0123456789abcdefABCDEF"

\* IPv4Address._parse_octet raises nothing
OctetOk(o) ==
    /\ isdigit(o)
    /\ Len(o) <= 3
    /\ (o = "0" \/ Ch(o, 1) # "0")
    /\ DecValue(o) <= 255

\* ipaddress.IPv4Address(ip) for a string
IPv4Address(ip) ==
    LET octets == split(ip, ".") IN
    IF In("/", ip) \/ ip = "" \/ Len(octets) # 4
       \/ \E i \in 1..Len(octets) : ~OctetOk(octets[i])
    THEN Raise("AddressValueError")
    ELSE Ok(ip)

\* IPv6Address._parse_hextet raises nothing
HextetOk(h) ==
    /\ Len(h) >= 1
    /\ Len(h) <= 4
    /\ \A i \in 1..Len(h) : In(Ch(h, i), HexDigits)

\* the hextet layout: at most one "::" (an empty part strictly inside), the parts
\* before and after it well formed, eight hextets when there is none
IPv6Shape(ip, parts, n, skips) ==
    LET skip == CHOOSE i \in skips : TRUE
        hi == IF parts[1] = "" THEN skip - 2 ELSE skip - 1
        lo == IF parts[n] = "" THEN n - skip - 1 ELSE n - skip
        shapeOk ==
            IF skips # {}
            THEN /\ (parts[1] = "" => hi = 0)
                 /\ (parts[n] = "" => lo = 0)
                 /\ 8 - (hi + lo) >= 1
                 /\ \A i \in 1..hi : HextetOk(parts[i])
                 /\ \A i \in (n - lo + 1)..n : HextetOk(parts[i])
            ELSE /\ n = 8
                 /\ \A i \in 1..n : HextetOk(parts[i])
    IN  IF n > 9 \/ Cardinality(skips) > 1 \/ ~shapeOk
        THEN Raise("AddressValueError")
        ELSE Ok(ip)

IPv6Hextets(ip, parts) ==
    IPv6Shape(ip, parts, Len(parts), {i \in 2..(Len(parts) - 1) : parts[i] = ""})

\* an embedded IPv4 tail is validated and replaced by its two hextets
IPv6Tail(ip, parts0, last) ==
    IF In(".", last)
    THEN IF IPv4Address(last).exc # "none" THEN Raise("AddressValueError")
         ELSE IPv6Hextets(ip, SubSeq(parts0, 1, Len(parts0) - 1) \o <<"0", "0">>)
    ELSE IPv6Hextets(ip, parts0)

IPv6Split(ip, parts0) ==
    IF Len(parts0) < 3 THEN Raise("AddressValueError")
    ELSE IPv6Tail(ip, parts0, parts0[Len(parts0)])

\* the scope id after "%" must be non-empty and hold no further "%"
IPv6Scoped(ip, pct) ==
    LET scope == IF pct = 0 THEN "" ELSE SubSeq(ip, pct + 1, Len(ip))
        addr == IF pct = 0 THEN ip ELSE SubSeq(ip, 1, pct - 1)
    IN  IF In("/", ip) \/ (pct # 0 /\ (scope = "" \/ In("%", scope))) \/ addr = ""
        THEN Raise("AddressValueError")
        ELSE IPv6Split(ip, split(addr, ":"))

\* ipaddress.IPv6Address(ip) for a string
IPv6Address(ip) == IPv6Scoped(ip, IndexOf("%", ip))

\* a validity test that only counts the dot-separated parts
_is_valid_ipv4_dotted(ip) == Ok(Len(split(ip, ".")) = 4)

\* try: constructor(ip); return True / except AddressValueError: return False
ExceptAddressValueError(r) ==
    IF r.exc = "none" THEN Ok(TRUE)
    ELSE IF r.exc = "AddressValueError" THEN Ok(FALSE)
    ELSE Raise(r.exc)

\* Resolver._is_valid_ipv4 / utils.is_valid_ipv4: only AddressValueError is caught
_is_valid_ipv4(ip) == ExceptAddressValueError(IPv4Address(ip))

\* Resolver._is_valid_ipv6 / utils.is_valid_ipv6
_is_valid_ipv6(ip) == ExceptAddressValueError(IPv6Address(ip))

---------------------------------------------------------------------------
(* base64 and UTF-8 *)

\* ASCII 32..95 and 97..126 (a string cannot hold the grave accent, 96)
PrintableLo == " !\"#$%&'()*+,-./0123456789:;<=>?@ABCDEFGHIJKLMNOPQRSTUVWXYZ[\\]^_"
PrintableHi == "abcdefghijklmnopqrstuvwxyz{|}~"

B64Alphabet == "ABCDEFGHIJKLMNOPQRSTUVWXYZabcdefghijklmnopqrstuvwxyz0123456789+/"

\* ord(c) for an ASCII character
ord(c) ==
    IF c = "\t" THEN 9 ELSE IF c = "\n" THEN 10 ELSE IF c = "\r" THEN 13
    ELSE IF In(c, PrintableLo) THEN 31 + IndexOf(c, PrintableLo)
    ELSE 96 + IndexOf(c, PrintableHi)

\* chr(n); a code point outside printable ASCII is written <U+n>
chr(n) ==
    IF n = 9 THEN "\t" ELSE IF n = 10 THEN "\n" ELSE IF n = 13 THEN "\r"
    ELSE IF n >= 32 /\ n <= 95 THEN Ch(PrintableLo, n - 31)
    ELSE IF n >= 97 /\ n <= 126 THEN Ch(PrintableHi, n - 96)
    ELSE "<U+" \o str(n) \o ">"

\* str.encode() of an ASCII string: its bytes
encode(s) == [i \in 1..Len(s) |-> ord(Ch(s, i))]

Cont(b) == b >= 128 /\ b <= 191

RECURSIVE utf8_decode(_)
\* bytes.decode('utf-8'), strict: the text, or UnicodeDecodeError
utf8_decode(bs) ==
    IF bs = <<>> THEN Ok("")
    ELSE
    LET b1 == bs[1]
        n == Len(bs)
        size == IF b1 <= 127 THEN 1
                ELSE IF b1 >= 194 /\ b1 <= 223 THEN 2
                ELSE IF b1 >= 224 /\ b1 <= 239 THEN 3
                ELSE IF b1 >= 240 /\ b1 <= 244 THEN 4
                ELSE 0
        wellFormed ==
            /\ size # 0
            /\ n >= size
            /\ \A i \in 2..size : Cont(bs[i])
            /\ (b1 = 224 => bs[2] >= 160)
            /\ (b1 = 237 => bs[2] <= 159)
            /\ (b1 = 240 => bs[2] >= 144)
            /\ (b1 = 244 => bs[2] <= 143)
        cp == IF size = 1 THEN b1
              ELSE IF size = 2 THEN (b1 - 192) * 64 + (bs[2] - 128)
              ELSE IF size = 3 THEN (b1 - 224) * 4096 + (bs[2] - 128) * 64 + (bs[3] - 128)
              ELSE (b1 - 240) * 262144 + (bs[2] - 128) * 4096 + (bs[3] - 128) * 64 + (bs[4] - 128)
        rest == utf8_decode(SubSeq(bs, size + 1, n))
    IN  IF ~wellFormed THEN Raise("UnicodeDecodeError")
        ELSE IF rest.exc # "none" THEN rest
        ELSE Ok(chr(cp) \o rest.val)

RECURSIVE b64chunks(_)
\* the base64 text of a byte sequence, three bytes at a time
b64chunks(bs) ==
    IF bs = <<>> THEN ""
    ELSE
    LET n == Len(bs)
        b1 == bs[1]
        b2 == IF n >= 2 THEN bs[2] ELSE 0
        b3 == IF n >= 3 THEN bs[3] ELSE 0
        c1 == Ch(B64Alphabet, (b1 \div 4) + 1)
        c2 == Ch(B64Alphabet, ((b1 % 4) * 16 + (b2 \div 16)) + 1)
        c3 == IF n >= 2 THEN Ch(B64Alphabet, ((b2 % 16) * 4 + (b3 \div 64)) + 1) ELSE "="
        c4 == IF n >= 3 THEN Ch(B64Alphabet, (b3 % 64) + 1) ELSE "="
    IN  c1 \o c2 \o c3 \o c4 \o b64chunks(SubSeq(bs, 4, n))

\* base64.b64encode(bs).decode()
b64encode(bs) == b64chunks(bs)

RECURSIVE a2b_base64(_, _, _, _)
\* binascii.a2b_base64: the scan from character i in state st
\* (q: position in the quad, left: pending bits, pads, started: a pad was seen)
a2b_base64(s, i, st, strict) ==
    IF i > Len(s)
    THEN IF st.q # 0 THEN Raise("binascii.Error") ELSE Ok(st.out)
    ELSE
    LET c == Ch(s, i)
        v == IndexOf(c, B64Alphabet) - 1
    IN  IF c = "="
        THEN IF st.q >= 2 /\ st.q + st.pads + 1 >= 4
             THEN IF strict /\ i < Len(s) THEN Raise("binascii.Error") ELSE Ok(st.out)
             ELSE a2b_base64(s, i + 1,
                     [st EXCEPT !.started = TRUE,
                                !.pads = IF st.q >= 2 THEN @ + 1 ELSE @], strict)
        ELSE IF v < 0
        THEN IF strict THEN Raise("binascii.Error") ELSE a2b_base64(s, i + 1, st, strict)
        ELSE IF strict /\ st.started THEN Raise("binascii.Error")
        ELSE a2b_base64(s, i + 1,
                CASE st.q = 0 -> [st EXCEPT !.q = 1, !.pads = 0, !.left = v]
                  [] st.q = 1 -> [st EXCEPT !.q = 2, !.pads = 0, !.left = v % 16,
                                            !.out = Append(@, st.left * 4 + (v \div 16))]
                  [] st.q = 2 -> [st EXCEPT !.q = 3, !.pads = 0, !.left = v % 4,
                                            !.out = Append(@, st.left * 16 + (v \div 4))]
                  [] OTHER    -> [st EXCEPT !.q = 0, !.pads = 0, !.left = 0,
                                            !.out = Append(@, st.left * 64 + v)],
                strict)

\* base64.b64decode(s, validate=strict): the bytes, or binascii.Error
b64decode(s, strict) ==
    IF strict /\ Len(s) > 0 /\ Ch(s, 1) = "="
    THEN Raise("binascii.Error")
    ELSE a2b_base64(s, 1, [q |-> 0, left |-> 0, pads |-> 0, started |-> FALSE, out |-> <<>>], strict)

\* str.replace(old, "") for a one-character old
remove(s, old) == Cat([i \in 1..Len(s) |-> IF Ch(s, i) = old THEN "" ELSE Ch(s, i)])

RECURSIVE repeat(_, _)
\* c * n
repeat(c, n) == IF n <= 0 THEN "" ELSE c \o repeat(c, n - 1)

\* utils.encode_base64
encode_base64(text) == b64encode(encode(text))

\* utils.decode_base64: padding repaired, strict alphabet, any failure is the sentinel
decode_base64(encoded_text) ==
    LET cleaned == remove(remove(encoded_text, " "), "\n")
        padded == cleaned \o repeat("=", (4 - (Len(cleaned) % 4)) % 4)
        decoded_bytes == b64decode(padded, TRUE)
        text == utf8_decode(decoded_bytes.val)
    IN  IF decoded_bytes.exc # "none" THEN "Invalid base64"
        ELSE IF text.exc # "none" THEN "Invalid base64"
        ELSE text.val

---------------------------------------------------------------------------
(* The handlers of class Resolver.  A reply is the sequence of its answer  *)
(* records, in the order add_answer appended them.                         *)

RR(rtype, rdata) == [rtype |-> rtype, rdata |-> rdata]

\* the query types: A, AAAA, TXT, ANY, and MX standing for every other type
QTYPES == {"A", "AAAA", "TXT", "ANY", "MX"}

CIDR_DOMAIN == "cidr"
TIME_DOMAINS == {"time"}
IP_DOMAINS == {"ip"}
MYIP_DOMAINS == {"myip"}
BASE64_PREFIX == "b64"
BASE64_DECODE_PREFIX == "d64"

\* Resolver._extract_query: the name without outer dots, lower-cased
_extract_query(qname) == lower(strip(qname, "."))

\* usable count without the /31 and /32 cases
_resolve_cidr_minus_two(qtype, prefix) ==
    IF 32 - prefix < 0 THEN Raise("ValueError")
    ELSE
    LET total_hosts == BigShl(<<1>>, 32 - prefix)
        usable == IF BigLess(total_hosts, 2) THEN <<>>
                  ELSE BigNorm(BigDec(total_hosts, 2))
    IN  IF qtype = "TXT" THEN Ok(<<RR("TXT", BigStr(usable))>>)
        ELSE Ok(<<>>)

\* Resolver._resolve_cidr; a negative shift count is a ValueError
_resolve_cidr(qtype, prefix) ==
    IF 32 - prefix < 0 THEN Raise("ValueError")
    ELSE
    LET total_hosts == BigShl(<<1>>, 32 - prefix)
        usable == IF prefix = 31 THEN <<2>>
                  ELSE IF prefix = 32 THEN <<1>>
                  ELSE IF BigLess(total_hosts, 2) THEN <<>>
                  ELSE BigNorm(BigDec(total_hosts, 2))
    IN  IF qtype = "TXT" THEN Ok(<<RR("TXT", BigStr(usable))>>)
        ELSE Ok(<<>>)

\* dotted quad whose octets are not reduced with & 0xFF
_int_to_ip_unmasked(x) ==
    join(".", <<BigStr(BigShr(x, 24)), BigStr(BigShr(x, 16)),
                BigStr(BigShr(x, 8)), BigStr(BigShr(x, 0))>>)

\* Resolver._int_to_ip / utils.int_to_ip, x an unbounded natural
_int_to_ip(x) ==
    join(".", <<str(BigAnd255(BigShr(x, 24))), str(BigAnd255(BigShr(x, 16))),
                str(BigAnd255(BigShr(x, 8))), str(BigAnd255(BigShr(x, 0)))>>)

\* Resolver._subnet_mask_from_prefix / utils.subnet_mask_from_prefix
_subnet_mask_from_prefix(prefix) ==
    IF prefix = 0 THEN Ok("0.0.0.0")
    ELSE IF 32 - prefix < 0 THEN Raise("ValueError")
    ELSE Ok(_int_to_ip(BigShl(<<255, 255, 255, 255>>, 32 - prefix)))

\* Resolver._resolve_subnet_mask
_resolve_subnet_mask(qtype, prefix) ==
    LET mask == _subnet_mask_from_prefix(prefix) IN
    IF mask.exc # "none" THEN mask
    ELSE IF qtype = "A" THEN Ok(<<RR("A", mask.val)>>)
    ELSE Ok(<<>>)

pad2(n) == IF n < 10 THEN "0" \o str(n) ELSE str(n)

\* datetime.fromtimestamp(t).strftime("%Y-%m-%d %H:%M:%S"), local time taken as UTC
strftime(t) ==
    LET z == (t \div 86400) + 719468
        era == z \div 146097
        doe == z - era * 146097
        yoe == (doe - (doe \div 1460) + (doe \div 36524) - (doe \div 146096)) \div 365
        doy == doe - (365 * yoe + (yoe \div 4) - (yoe \div 100))
        mp == (5 * doy + 2) \div 153
        d == doy - ((153 * mp + 2) \div 5) + 1
        m == IF mp < 10 THEN mp + 3 ELSE mp - 9
        y == yoe + era * 400 + (IF m <= 2 THEN 1 ELSE 0)
        sod == t % 86400
    IN  str(y) \o "-" \o pad2(m) \o "-" \o pad2(d) \o " " \o
        pad2(sod \div 3600) \o ":" \o pad2((sod % 3600) \div 60) \o ":" \o pad2(sod % 60)

\* Resolver._resolve_time at clock value t
_resolve_time(qtype, t) ==
    LET current_time == strftime(t)
        sec == ((t % 60) % 255) + 1
        fake_ip == "127.0.0." \o str(sec)
    IN  IF qtype = "TXT" THEN Ok(<<RR("TXT", current_time)>>)
        ELSE IF qtype = "A" THEN Ok(<<RR("A", fake_ip)>>)
        ELSE Ok(<<>>)

\* server address handler whose final branch emits the A record for every other type
_resolve_server_ip_default_a(qtype, ips) ==
    LET ipv4_address == ips[1]
        ipv6_address == ips[2]
        text == "IPv4: " \o ipv4_address \o ", IPv6: " \o ipv6_address
    IN  IF qtype = "AAAA" THEN Ok(<<RR("AAAA", ipv6_address)>>)
        ELSE IF qtype = "TXT" THEN Ok(<<RR("TXT", text)>>)
        ELSE Ok(<<RR("A", ipv4_address)>>)

\* Resolver._resolve_server_ip once _get_public_ips has returned ips
_resolve_server_ip(qtype, ips) ==
    LET ipv4_address == ips[1]
        ipv6_address == ips[2]
        text == "IPv4: " \o ipv4_address \o ", IPv6: " \o ipv6_address
    IN  IF qtype = "A" THEN Ok(<<RR("A", ipv4_address)>>)
        ELSE IF qtype = "AAAA" THEN Ok(<<RR("AAAA", ipv6_address)>>)
        ELSE IF qtype = "TXT" THEN Ok(<<RR("TXT", text)>>)
        ELSE IF qtype = "ANY"
        THEN Ok(<<RR("A", ipv4_address), RR("AAAA", ipv6_address), RR("TXT", text)>>)
        ELSE Ok(<<>>)

\* the answers of _resolve_client_ip once both validity tests have returned
ClientIpAnswers(qtype, client_ip, is_ipv4, is_ipv6) ==
    IF is_ipv4.exc # "none" THEN is_ipv4
    ELSE IF is_ipv6.exc # "none" THEN is_ipv6
    ELSE IF qtype = "A" /\ is_ipv4.val THEN Ok(<<RR("A", client_ip)>>)
    ELSE IF qtype = "AAAA" /\ is_ipv6.val THEN Ok(<<RR("AAAA", client_ip)>>)
    ELSE IF qtype = "TXT" THEN Ok(<<RR("TXT", client_ip)>>)
    ELSE Ok(<<>>)

\* Resolver._resolve_client_ip
_resolve_client_ip(qtype, client_ip) ==
    ClientIpAnswers(qtype, client_ip, _is_valid_ipv4(client_ip), _is_valid_ipv6(client_ip))

\* Resolver._resolve_b64_encode
_resolve_b64_encode(qtype, text) ==
    IF qtype = "TXT" THEN Ok(<<RR("TXT", b64encode(encode(text)))>>)
    ELSE Ok(<<>>)

\* decode handler that catches binascii.Error only
_resolve_b64_decode_binascii_only(qtype, encoded_text) ==
    IF qtype = "TXT"
    THEN LET bytes == b64decode(encoded_text, FALSE)
             decoded == utf8_decode(bytes.val)
         IN  IF bytes.exc # "none" THEN Ok(<<RR("TXT", "Invalid base64")>>)
             ELSE IF decoded.exc # "none" THEN Raise(decoded.exc)
             ELSE Ok(<<RR("TXT", decoded.val)>>)
    ELSE Ok(<<>>)

\* Resolver._resolve_b64_decode: b64decode without validate and without
\* padding repair; every exception inside the try gives the sentinel answer
_resolve_b64_decode(qtype, encoded_text) ==
    IF qtype = "TXT"
    THEN LET bytes == b64decode(encoded_text, FALSE)
             decoded == utf8_decode(bytes.val)
         IN  IF bytes.exc # "none" THEN Ok(<<RR("TXT", "Invalid base64")>>)
             ELSE IF decoded.exc # "none" THEN Ok(<<RR("TXT", "Invalid base64")>>)
             ELSE Ok(<<RR("TXT", decoded.val)>>)
    ELSE Ok(<<>>)

\* a try block that ends the classification when the prefix does not parse or is
\* out of range
TryHandlerRejecting(prefix, qtype, mask) ==
    LET inner == IF mask THEN _resolve_subnet_mask(qtype, prefix.val)
                 ELSE _resolve_cidr(qtype, prefix.val)
    IN  IF prefix.exc = "ValueError" THEN [pass |-> FALSE, out |-> Ok(<<>>)]
        ELSE IF prefix.exc # "none" THEN [pass |-> FALSE, out |-> Raise(prefix.exc)]
        ELSE IF ~(0 <= prefix.val /\ prefix.val <= 32) THEN [pass |-> FALSE, out |-> Ok(<<>>)]
        ELSE IF inner.exc = "ValueError" THEN [pass |-> TRUE, out |-> Ok(<<>>)]
        ELSE [pass |-> FALSE, out |-> inner]

\* the try block of rules 1 and 2 once int() has returned prefix: the handler's
\* reply, or "pass" when int() or the handler raised ValueError or the prefix is
\* out of range
TryHandler(prefix, qtype, mask) ==
    LET inner == IF mask THEN _resolve_subnet_mask(qtype, prefix.val)
                 ELSE _resolve_cidr(qtype, prefix.val)
    IN  IF prefix.exc = "ValueError" THEN [pass |-> TRUE, out |-> Ok(<<>>)]
        ELSE IF prefix.exc # "none" THEN [pass |-> FALSE, out |-> Raise(prefix.exc)]
        ELSE IF ~(0 <= prefix.val /\ prefix.val <= 32) THEN [pass |-> TRUE, out |-> Ok(<<>>)]
        ELSE IF inner.exc = "ValueError" THEN [pass |-> TRUE, out |-> Ok(<<>>)]
        ELSE [pass |-> FALSE, out |-> inner]

TryPrefix(prefix_part, qtype, mask) == TryHandler(int(prefix_part), qtype, mask)

\* the rules of Resolver.resolve in order, on the extracted name and its labels
Rules(qname_str, parts, qtype, client_ip, t, ips) ==
    LET rule1 == IF Len(parts) = 2 /\ endswith(qname_str, "." \o CIDR_DOMAIN)
                 THEN TryPrefix(parts[1], qtype, FALSE)
                 ELSE [pass |-> TRUE, out |-> Ok(<<>>)]
        rule2 == IF Len(parts) = 3 /\ endswith(qname_str, ".mask." \o CIDR_DOMAIN)
                 THEN TryPrefix(parts[1], qtype, TRUE)
                 ELSE [pass |-> TRUE, out |-> Ok(<<>>)]
    IN  IF ~rule1.pass THEN rule1.out
        ELSE IF ~rule2.pass THEN rule2.out
        ELSE IF qname_str \in TIME_DOMAINS THEN _resolve_time(qtype, t)
        ELSE IF qname_str \in IP_DOMAINS THEN _resolve_server_ip(qtype, ips)
        ELSE IF qname_str \in MYIP_DOMAINS THEN _resolve_client_ip(qtype, client_ip)
        ELSE IF Len(parts) > 1 /\ parts[1] = BASE64_PREFIX
             THEN _resolve_b64_encode(qtype, join(".", Tail(parts)))
        ELSE IF Len(parts) > 1 /\ parts[1] = BASE64_DECODE_PREFIX
             THEN _resolve_b64_decode(qtype, Cat(Tail(parts)))
        ELSE Ok(<<>>)

Labels(qname_str, qtype, client_ip, t, ips) ==
    Rules(qname_str, split(qname_str, "."), qtype, client_ip, t, ips)

\* Resolver.resolve for the query (qname, qtype) from client_ip at clock value t;
\* ips is what _get_public_ips returns when rule 4 calls it
resolve(qname, qtype, client_ip, t, ips) ==
    Labels(_extract_query(qname), qtype, client_ip, t, ips)

---------------------------------------------------------------------------
(* The public-IP lookup: endpoints, fetch loops and the cache              *)

NoneVal == "None"

\* Resolver._cache_ttl
CACHE_TTL == 300

\* what one requests.get can give: a body, or an exception (timeout, refused)
Timeout == Raise("requests.RequestException")

IPV4_SERVICES == 4
IPV6_SERVICES == 2

\* bodies an IPv4 lookup endpoint may answer with
Bodies4 == {" 203.0.113.5\n", "<html>"}
\* bodies an IPv6 lookup endpoint may answer with
Bodies6 == {"2001:db8::1\n", "203.0.113.5"}

Responses4 == [1..IPV4_SERVICES -> {Ok(b) : b \in Bodies4} \cup {Timeout}]
Responses6 == [1..IPV6_SERVICES -> {Ok(b) : b \in Bodies6} \cup {Timeout}]

\* the outcome of one pass of the loop body: the validated address, or "continue"
\* when the request raised, the validity test raised or the body is not an address
ServiceResult(response, ip, valid) ==
    IF response.exc # "none" THEN [found |-> FALSE, ip |-> ""]
    ELSE IF valid.exc # "none" THEN [found |-> FALSE, ip |-> ""]
    ELSE IF valid.val THEN [found |-> TRUE, ip |-> ip]
    ELSE [found |-> FALSE, ip |-> ""]

Validate(response, ip, v6) ==
    ServiceResult(response, ip, IF v6 THEN _is_valid_ipv6(ip) ELSE _is_valid_ipv4(ip))

\* one pass of the loop body for a response
TryService(response, v6) == Validate(response, strip(response.val, Whitespace), v6)

RECURSIVE FetchLoopLast(_, _, _, _)
\* a loop that contacts every service and keeps the last valid answer
FetchLoopLast(responses, i, v6, fallback) ==
    IF i > Len(responses) THEN [ip |-> fallback, contacted |-> i - 1]
    ELSE LET r == TryService(responses[i], v6)
         IN  FetchLoopLast(responses, i + 1, v6, IF r.found THEN r.ip ELSE fallback)

RECURSIVE FetchLoop(_, _, _, _)
\* the for loop over the services from index i: the address returned and the
\* number of endpoints contacted
FetchLoop(responses, i, v6, fallback) ==
    IF i > Len(responses) THEN [ip |-> fallback, contacted |-> i - 1]
    ELSE LET r == TryService(responses[i], v6)
         IN  IF r.found THEN [ip |-> r.ip, contacted |-> i]
             ELSE FetchLoop(responses, i + 1, v6, fallback)

\* Resolver._fetch_ipv4 / utils.fetch_ipv4 when the endpoints answer responses
_fetch_ipv4(responses) == FetchLoop(responses, 1, FALSE, "127.0.0.1")

\* Resolver._fetch_ipv6 / utils.fetch_ipv6
_fetch_ipv6(responses) == FetchLoop(responses, 1, TRUE, "::1")

\* every outcome a fetch can have over the endpoint behaviours
Fetch4Outcomes == {_fetch_ipv4(r) : r \in Responses4}
Fetch6Outcomes == {_fetch_ipv6(r) : r \in Responses6}

\* Python truthiness of a cached value
Truthy(x) == x # NoneVal /\ x # ""

---------------------------------------------------------------------------
(* Bounds of the model *)

\* worker threads of the threaded UDP server in the concurrent specification
NThreads == 2
\* no query is received once this many cache refreshes have started
MaxRefresh == 3
\* the clock at start, its step and the number of steps
StartTime == 1000
TickStep == 200
MaxTicks == 2
\* numeric first labels 0..MaxPrefix
MaxPrefix == 34

Threads == 1..NThreads

Clients == {"192.0.2.7", "2001:db8::7", "::ffff:192.0.2.7", "fe80::1%eth0", "localhost",
            "192.0.2.256", ""}

Prefixes == {str(n) : n \in 0..MaxPrefix}

\* first labels that are not plain decimal numbers in 0..32
OddLabels == {"024", "00", "032", "033", "+24", "-0", "-1", "2_4", "3_3", "2__4", "_24",
              "24_", " 24", "24 ", "2 4", "abc", "", "+", "0x10", "1e1", "99", "b64", "d64"}

CidrNames ==
    {l \o ".cidr" : l \in Prefixes \cup OddLabels} \cup
    {l \o ".mask.cidr" : l \in Prefixes \cup OddLabels}

FixedNames == {"time", "ip", "myip", "Time", "IP", "MyIp", "ip.", "time.local", "ip.local",
               "b64", "d64", "", ".", "cidr", "mask.cidr", "24.cidr.", "24.CIDR",
               "24.Mask.Cidr", "24.cidr.cidr", "1.2.cidr", "24.mask", "x.24.cidr",
               "24.mask.cidr.x", "24.xcidr", "example.com"}

Payloads == {"Hello", "hello", "cidr", "a.B", "aGVsbG8", "aGVsbG8=", "SGVsbG8=", "!!!",
             "aGk=", "aGk", "YQ==", "YQ.==", "eXo=", "w6k=", "/w==", "a", "", "a b", "24.cidr"}

B64Names == {"b64." \o p : p \in Payloads} \cup {"d64." \o p : p \in Payloads} \cup
            {"B64.Hello", "D64.aGk="}

Names == CidrNames \cup FixedNames \cup B64Names

Query(n, q, c) == [qname |-> n, qtype |-> q, client |-> c]

\* names whose handler reads the client address
ClientNames == {"myip", "MyIp", "myip."}

\* the queries of the sequential specification
Queries ==
    {Query(n, q, "192.0.2.7") : n \in Names, q \in QTYPES} \cup
    {Query(n, q, c) : n \in ClientNames, q \in QTYPES, c \in Clients}

\* the queries of the concurrent specification: those that reach the cache
IpQueries == {Query("ip", "TXT", "192.0.2.7")}

NoQuery == Query("", "", "")
NoLocals == [current_time |-> 0, ipv4_address |-> "", ipv6_address |-> "",
             path |-> "", contacted |-> FALSE, gen |-> 0, g4 |-> 0, g6 |-> 0,
             populated |-> <<"", "">>]
NoReply == Raise("pending")

---------------------------------------------------------------------------
(* The state machine *)

Init ==
    /\ cached_ipv4 = NoneVal
    /\ cached_ipv6 = NoneVal
    /\ cache_time = 0
    /\ now = StartTime
    /\ pc = [t \in Threads |-> "idle"]
    /\ req = [t \in Threads |-> NoQuery]
    /\ loc = [t \in Threads |-> NoLocals]
    /\ reply = [t \in Threads |-> NoReply]
    /\ hist = [gens |-> 0, w4 |-> 0, w6 |-> 0, wT |-> 0, populated |-> <<"", "">>]

\* time passes
Tick ==
    /\ now < StartTime + MaxTicks * TickStep
    /\ now' = now + TickStep
    /\ UNCHANGED <<cached_ipv4, cached_ipv6, cache_time, pc, req, loc, reply, hist>>

\* the transport hands a query to resolve on thread t
Receive(t, q) ==
    /\ pc[t] = "idle"
    /\ hist.gens < MaxRefresh
    /\ req' = [req EXCEPT ![t] = q]
    /\ loc' = [loc EXCEPT ![t] = NoLocals]
    /\ reply' = [reply EXCEPT ![t] = NoReply]
    /\ pc' = [pc EXCEPT ![t] = "resolve"]
    /\ UNCHANGED <<cached_ipv4, cached_ipv6, cache_time, now, hist>>

\* resolve reaches rule 4 and calls _resolve_server_ip
ReachesServerIp(qname) == _extract_query(qname) \in IP_DOMAINS

\* resolve, lines 49-109, for a query that does not reach _get_public_ips
Resolve(t) ==
    /\ pc[t] = "resolve"
    /\ ~ReachesServerIp(req[t].qname)
    /\ reply' = [reply EXCEPT ![t] =
                    resolve(req[t].qname, req[t].qtype, req[t].client, now, <<"", "">>)]
    /\ pc' = [pc EXCEPT ![t] = "done"]
    /\ UNCHANGED <<cached_ipv4, cached_ipv6, cache_time, now, req, loc, hist>>

\* _get_public_ips, line 230: current_time = time.time()
GetTime(t) ==
    /\ pc[t] = "resolve"
    /\ ReachesServerIp(req[t].qname)
    /\ loc' = [loc EXCEPT ![t].current_time = now]
    /\ pc' = [pc EXCEPT ![t] = "check"]
    /\ UNCHANGED <<cached_ipv4, cached_ipv6, cache_time, now, req, reply, hist>>

\* line 233: the cache is still valid
CacheValid(current_time) ==
    /\ (current_time - cache_time) < CACHE_TTL
    /\ Truthy(cached_ipv4)
    /\ Truthy(cached_ipv6)

\* _get_public_ips, line 233
CheckCache(t) ==
    /\ pc[t] = "check"
    /\ IF CacheValid(loc[t].current_time)
       THEN /\ loc' = [loc EXCEPT ![t].path = "hit", ![t].populated = hist.populated]
            /\ pc' = [pc EXCEPT ![t] = "hit4"]
       ELSE /\ loc' = [loc EXCEPT ![t].path = "refresh"]
            /\ pc' = [pc EXCEPT ![t] = "fetch"]
    /\ UNCHANGED <<cached_ipv4, cached_ipv6, cache_time, now, req, reply, hist>>

\* line 234, first operand: read self._cached_ipv4
HitRead4(t) ==
    /\ pc[t] = "hit4"
    /\ loc' = [loc EXCEPT ![t].ipv4_address = cached_ipv4, ![t].g4 = hist.w4]
    /\ pc' = [pc EXCEPT ![t] = "hit6"]
    /\ UNCHANGED <<cached_ipv4, cached_ipv6, cache_time, now, req, reply, hist>>

\* line 234, second operand: read self._cached_ipv6
HitRead6(t) ==
    /\ pc[t] = "hit6"
    /\ loc' = [loc EXCEPT ![t].ipv6_address = cached_ipv6, ![t].g6 = hist.w6]
    /\ pc' = [pc EXCEPT ![t] = "reply"]
    /\ UNCHANGED <<cached_ipv4, cached_ipv6, cache_time, now, req, reply, hist>>

\* lines 237-238: both fetch loops; they touch no shared state
Fetch(t) ==
    /\ pc[t] = "fetch"
    /\ \E o4 \in Fetch4Outcomes, o6 \in Fetch6Outcomes :
          loc' = [loc EXCEPT ![t].ipv4_address = o4.ip,
                             ![t].ipv6_address = o6.ip,
                             ![t].contacted = (o4.contacted + o6.contacted > 0),
                             ![t].gen = hist.gens + 1,
                             ![t].g4 = hist.gens + 1,
                             ![t].g6 = hist.gens + 1]
    /\ hist' = [hist EXCEPT !.gens = @ + 1]
    /\ pc' = [pc EXCEPT ![t] = "write4"]
    /\ UNCHANGED <<cached_ipv4, cached_ipv6, cache_time, now, req, reply>>

\* line 241: self._cached_ipv4 = ipv4_address
Write4(t) ==
    /\ pc[t] = "write4"
    /\ cached_ipv4' = loc[t].ipv4_address
    /\ hist' = [hist EXCEPT !.w4 = loc[t].gen]
    /\ pc' = [pc EXCEPT ![t] = "write6"]
    /\ UNCHANGED <<cached_ipv6, cache_time, now, req, loc, reply>>

\* line 242: self._cached_ipv6 = ipv6_address
Write6(t) ==
    /\ pc[t] = "write6"
    /\ cached_ipv6' = loc[t].ipv6_address
    /\ hist' = [hist EXCEPT !.w6 = loc[t].gen]
    /\ pc' = [pc EXCEPT ![t] = "writeT"]
    /\ UNCHANGED <<cached_ipv4, cache_time, now, req, loc, reply>>

\* line 243: self._cache_time = current_time
WriteTime(t) ==
    /\ pc[t] = "writeT"
    /\ cache_time' = loc[t].current_time
    /\ hist' = [hist EXCEPT !.wT = loc[t].gen,
                            !.populated = <<loc[t].ipv4_address, loc[t].ipv6_address>>]
    /\ pc' = [pc EXCEPT ![t] = "reply"]
    /\ UNCHANGED <<cached_ipv4, cached_ipv6, now, req, loc, reply>>

\* _get_public_ips returns; _resolve_server_ip, lines 211-221, builds the reply
ServerIpReply(t) ==
    /\ pc[t] = "reply"
    /\ reply' = [reply EXCEPT ![t] =
                    resolve(req[t].qname, req[t].qtype, req[t].client, now,
                            <<loc[t].ipv4_address, loc[t].ipv6_address>>)]
    /\ pc' = [pc EXCEPT ![t] = "done"]
    /\ UNCHANGED <<cached_ipv4, cached_ipv6, cache_time, now, req, loc, hist>>

\* the transport sends the reply; the thread is free again
Return(t) ==
    /\ pc[t] = "done"
    /\ pc' = [pc EXCEPT ![t] = "idle"]
    /\ req' = [req EXCEPT ![t] = NoQuery]
    /\ loc' = [loc EXCEPT ![t] = NoLocals]
    /\ reply' = [reply EXCEPT ![t] = NoReply]
    /\ UNCHANGED <<cached_ipv4, cached_ipv6, cache_time, now, hist>>

\* one query at a time, any query
Next ==
    \/ Tick
    \/ \E q \in Queries : Receive(1, q)
    \/ Resolve(1)
    \/ GetTime(1)
    \/ CheckCache(1)
    \/ HitRead4(1)
    \/ HitRead6(1)
    \/ Fetch(1)
    \/ Write4(1)
    \/ Write6(1)
    \/ WriteTime(1)
    \/ ServerIpReply(1)
    \/ Return(1)

Spec == Init /\ [][Next]_vars

\* queries for the server's address resolved concurrently, one thread each
NextConc ==
    \/ Tick
    \/ \E t \in Threads, q \in IpQueries : Receive(t, q)
    \/ \E t \in Threads : GetTime(t)
    \/ \E t \in Threads : CheckCache(t)
    \/ \E t \in Threads : HitRead4(t)
    \/ \E t \in Threads : HitRead6(t)
    \/ \E t \in Threads : Fetch(t)
    \/ \E t \in Threads : Write4(t)
    \/ \E t \in Threads : Write6(t)
    \/ \E t \in Threads : WriteTime(t)
    \/ \E t \in Threads : ServerIpReply(t)
    \/ \E t \in Threads : Return(t)

SpecConc == Init /\ [][NextConc]_vars

\* IPv4 endpoint behaviours with two distinct valid bodies
ProbeBodies4 == Bodies4 \cup {"198.51.100.9"}
ProbeResponses4 == [1..IPV4_SERVICES -> {Ok(b) : b \in ProbeBodies4} \cup {Timeout}]

\* lines 237-238 with the endpoints' behaviour on record: r4 and r6 are what the
\* services would answer, n4 and n6 how many of them each loop contacted
FetchFrom(t) ==
    /\ pc[t] = "fetch"
    /\ \E r4 \in ProbeResponses4, r6 \in Responses6 :
          LET o4 == _fetch_ipv4(r4)
              o6 == _fetch_ipv6(r6)
          IN  loc' = [loc EXCEPT ![t] =
                         [current_time |-> loc[t].current_time,
                          ipv4_address |-> o4.ip, ipv6_address |-> o6.ip,
                          path |-> loc[t].path,
                          contacted |-> (o4.contacted + o6.contacted > 0),
                          gen |-> hist.gens + 1, g4 |-> hist.gens + 1,
                          g6 |-> hist.gens + 1, populated |-> loc[t].populated,
                          r4 |-> r4, r6 |-> r6,
                          n4 |-> o4.contacted, n6 |-> o6.contacted]]
    /\ hist' = [hist EXCEPT !.gens = @ + 1]
    /\ pc' = [pc EXCEPT ![t] = "write4"]
    /\ UNCHANGED <<cached_ipv4, cached_ipv6, cache_time, now, req, reply>>

\* one query for the server's address at a time, the endpoints on record
NextFetch ==
    \/ Tick
    \/ \E q \in IpQueries : Receive(1, q)
    \/ GetTime(1)
    \/ CheckCache(1)
    \/ HitRead4(1)
    \/ HitRead6(1)
    \/ FetchFrom(1)
    \/ Write4(1)
    \/ Write6(1)
    \/ WriteTime(1)
    \/ ServerIpReply(1)
    \/ Return(1)

SpecFetch == Init /\ [][NextFetch]_vars

---------------------------------------------------------------------------
(* Properties *)

\* the query of thread t has been resolved and its reply not yet sent
Resolved(t) == pc[t] = "done"

\* the labels of the received name, outer dots removed, case as received
RawLabels(qname) == split(strip(qname, "."), ".")

RTYPES == {"A", "AAAA", "TXT"}

Pow2(n) == 2 ^ n

\* the decimal text of usable_hosts(p); the two values above 2^31 are written out
UsableText(p) ==
    IF p = 0 THEN "4294967294"
    ELSE IF p = 1 THEN "2147483646"
    ELSE IF p = 31 THEN "2"
    ELSE IF p = 32 THEN "1"
    ELSE str(Pow2(32 - p) - 2)

\* C2: for every prefix p in 0..32 the query p.cidr is answered, for type TXT, by
\* exactly one TXT record holding the decimal usable-host count (2 for /31, 1 for
\* /32, else 2^(32-p) - 2), and for every other type by no answer.
C2_CidrUsableCount ==
    \A t \in Threads : \A p \in 0..32 :
        (Resolved(t) /\ req[t].qname = str(p) \o ".cidr") =>
            reply[t] = IF req[t].qtype = "TXT"
                       THEN Ok(<<RR("TXT", UsableText(p))>>)
                       ELSE Ok(<<>>)

\* 0.cidr asked for TXT was answered 4294967294
C2_Witness ==
    /\ Resolved(1) /\ req[1].qname = "0.cidr" /\ req[1].qtype = "TXT"
    /\ reply[1] = Ok(<<RR("TXT", "4294967294")>>)

\* octet k (0 the most significant) of the mask with the top p bits set
MaskOctet(p, k) ==
    LET bits == IF p - 8 * k >= 8 THEN 8 ELSE IF p - 8 * k <= 0 THEN 0 ELSE p - 8 * k
    IN  256 - Pow2(8 - bits)

MaskText(p) ==
    str(MaskOctet(p, 0)) \o "." \o str(MaskOctet(p, 1)) \o "." \o
    str(MaskOctet(p, 2)) \o "." \o str(MaskOctet(p, 3))

\* C3: for every prefix p in 0..32 the query p.mask.cidr is answered, for type A, by
\* exactly one A record holding the dotted quad of the 32-bit word whose top p bits
\* are set (every octet in 0..255), and for every other type by no answer.
C3_CidrSubnetMask ==
    \A t \in Threads : \A p \in 0..32 :
        (Resolved(t) /\ req[t].qname = str(p) \o ".mask.cidr") =>
            reply[t] = IF req[t].qtype = "A"
                       THEN Ok(<<RR("A", MaskText(p))>>)
                       ELSE Ok(<<>>)

\* 1.mask.cidr, where the shifted word is 63 bits wide, was answered 128.0.0.0
C3_Witness ==
    /\ Resolved(1) /\ req[1].qname = "1.mask.cidr" /\ req[1].qtype = "A"
    /\ reply[1] = Ok(<<RR("A", "128.0.0.0")>>)

\* the name is b64.<payload> (first label compared case-folded, one more label at least)
IsB64(qname) ==
    LET ls == RawLabels(qname) IN Len(ls) > 1 /\ lower(ls[1]) = BASE64_PREFIX

\* the name is d64.<labels>
IsD64(qname) ==
    LET ls == RawLabels(qname) IN Len(ls) > 1 /\ lower(ls[1]) = BASE64_DECODE_PREFIX

\* C4: the payload of a b64.<payload> query keeps the letter case of the name as
\* received: its TXT answer is the base64 of the payload as written (b64.Hello is
\* answered with the base64 of "Hello").
C4_PayloadCasePreserved ==
    \A t \in Threads :
        (Resolved(t) /\ IsB64(req[t].qname) /\ req[t].qtype = "TXT") =>
            reply[t] = Ok(<<RR("TXT", b64encode(encode(join(".", Tail(RawLabels(req[t].qname))))))>>)

\* C5: a d64.<labels> query of type TXT is answered by exactly one TXT record whose
\* value is the reference decoder (strip blanks, pad with "=", strict alphabet,
\* UTF-8, "Invalid base64" on any failure) applied to the labels after the first,
\* concatenated as received; every other type gets no answer.
C5_DecodeMatchesReference ==
    \A t \in Threads :
        (Resolved(t) /\ IsD64(req[t].qname)) =>
            reply[t] = IF req[t].qtype = "TXT"
                       THEN Ok(<<RR("TXT", decode_base64(Cat(Tail(RawLabels(req[t].qname)))))>>)
                       ELSE Ok(<<>>)

\* the query asks for the server's public address
IsServerIp(qname) == _extract_query(qname) \in IP_DOMAINS

ServerIpText == "IPv4: " \o cached_ipv4 \o ", IPv6: " \o cached_ipv6

\* C6 as claimed: A, AAAA and TXT get their one record, and every other type,
\* ANY included, gets exactly the A record.
C6_OtherTypesGetA ==
    (Resolved(1) /\ IsServerIp(req[1].qname)) =>
        reply[1] = CASE req[1].qtype = "A" -> Ok(<<RR("A", cached_ipv4)>>)
                     [] req[1].qtype = "AAAA" -> Ok(<<RR("AAAA", cached_ipv6)>>)
                     [] req[1].qtype = "TXT" -> Ok(<<RR("TXT", ServerIpText)>>)
                     [] OTHER -> Ok(<<RR("A", cached_ipv4)>>)

\* C6 amended: A, AAAA and TXT get their one record from the cached pair; ANY gets
\* the three records A, AAAA, TXT in that order; every other type gets no answer.
C6_ServerIpAnswers ==
    (Resolved(1) /\ IsServerIp(req[1].qname)) =>
        reply[1] = CASE req[1].qtype = "A" -> Ok(<<RR("A", cached_ipv4)>>)
                     [] req[1].qtype = "AAAA" -> Ok(<<RR("AAAA", cached_ipv6)>>)
                     [] req[1].qtype = "TXT" -> Ok(<<RR("TXT", ServerIpText)>>)
                     [] req[1].qtype = "ANY" ->
                            Ok(<<RR("A", cached_ipv4), RR("AAAA", cached_ipv6),
                                 RR("TXT", ServerIpText)>>)
                     [] OTHER -> Ok(<<>>)

\* an ANY query for ip was answered with three records from a fetched pair
C6_Witness ==
    /\ Resolved(1) /\ req[1].qname = "ip" /\ req[1].qtype = "ANY"
    /\ cached_ipv4 = "203.0.113.5" /\ cached_ipv6 = "::1"
    /\ Len(reply[1].val) = 3

\* the query asks for the client's address
IsClientIp(qname) == _extract_query(qname) \in MYIP_DOMAINS

\* the client addresses of the model that are IPv4 literals, and IPv6 literals
V4Clients == {"192.0.2.7"}
V6Clients == {"2001:db8::7", "::ffff:192.0.2.7", "fe80::1%eth0"}

\* C7 as claimed: A only for an IPv4 client, AAAA only for an IPv6 client, TXT
\* always, and for any other type exactly one record: A, else AAAA, else TXT.
C7_AnyFallsBack ==
    \A t \in Threads :
        (Resolved(t) /\ IsClientIp(req[t].qname)) =>
            LET c == req[t].client
                a == Ok(<<RR("A", c)>>)
                aaaa == Ok(<<RR("AAAA", c)>>)
                txt == Ok(<<RR("TXT", c)>>)
            IN  reply[t] =
                  CASE req[t].qtype = "A" -> (IF c \in V4Clients THEN a ELSE Ok(<<>>))
                    [] req[t].qtype = "AAAA" -> (IF c \in V6Clients THEN aaaa ELSE Ok(<<>>))
                    [] req[t].qtype = "TXT" -> txt
                    [] OTHER -> (IF c \in V4Clients THEN a
                                 ELSE IF c \in V6Clients THEN aaaa ELSE txt)

\* C7 amended: A only for an IPv4 client, AAAA only for an IPv6 client, TXT always
\* the raw client address, and every other type, ANY included, no answer.
C7_ClientIpAnswers ==
    \A t \in Threads :
        (Resolved(t) /\ IsClientIp(req[t].qname)) =>
            LET c == req[t].client IN
            reply[t] =
              CASE req[t].qtype = "A" -> (IF c \in V4Clients THEN Ok(<<RR("A", c)>>) ELSE Ok(<<>>))
                [] req[t].qtype = "AAAA" ->
                       (IF c \in V6Clients THEN Ok(<<RR("AAAA", c)>>) ELSE Ok(<<>>))
                [] req[t].qtype = "TXT" -> Ok(<<RR("TXT", c)>>)
                [] OTHER -> Ok(<<>>)

\* an ANY query for myip from an IPv4 client got no answer
C7_Witness ==
    /\ Resolved(1) /\ req[1].qname = "myip"
    /\ req[1].qtype = "ANY" /\ req[1].client = "192.0.2.7"
    /\ reply[1] = Ok(<<>>)

\* X is a plain unsigned decimal integer in 0..32: digits only, no leading zero
PlainPrefix(x) == isdigit(x) /\ (x = "0" \/ Ch(x, 1) # "0") /\ DecValue(x) <= 32

\* the name has the shape X.cidr or X.mask.cidr
CidrShaped(qname) ==
    LET qs == _extract_query(qname)
        n == Len(split(qs, "."))
    IN  \/ n = 2 /\ endswith(qs, ".cidr")
        \/ n = 3 /\ endswith(qs, ".mask.cidr")

\* C8: a name X.cidr or X.mask.cidr whose label X is not a plain unsigned decimal
\* integer in 0..32 (a sign, an underscore, whitespace, letters, a leading zero, a
\* value out of range) gets no CIDR answer: unless X is b64 or d64, which a later
\* rule serves, its reply is empty.
C8_OnlyPlainPrefixesMatch ==
    \A t \in Threads :
        LET x == split(_extract_query(req[t].qname), ".")[1] IN
        (Resolved(t) /\ CidrShaped(req[t].qname) /\ ~PlainPrefix(x)
            /\ x \notin {BASE64_PREFIX, BASE64_DECODE_PREFIX}) =>
            reply[t] = Ok(<<>>)

\* C9: a get_public_ips call that finds the cache populated and younger than the
\* TTL returns the pair of the call that populated it and contacts no endpoint,
\* whatever the interleaving of the calls.
C9_HitReturnsPopulatedPair ==
    \A t \in Threads :
        (pc[t] \in {"reply", "done"} /\ loc[t].path = "hit") =>
            /\ <<loc[t].ipv4_address, loc[t].ipv6_address>> = loc[t].populated
            /\ ~loc[t].contacted

\* C10: a call that takes the cache-hit path never returns two addresses written
\* by different refresh operations.
C10_HitPairFromOneRefresh ==
    \A t \in Threads :
        (pc[t] \in {"reply", "done"} /\ loc[t].path = "hit") => loc[t].g4 = loc[t].g6

\* the bodies that are a literal of the family once trimmed, with the literal
Good4 == [b \in {" 203.0.113.5\n", "198.51.100.9"} |->
            IF b = "198.51.100.9" THEN "198.51.100.9" ELSE "203.0.113.5"]
Good6 == [b \in {"2001:db8::1\n"} |-> "2001:db8::1"]

\* the endpoints of r that answer a body in good
Answering(r, good) ==
    {i \in 1..Len(r) : r[i].exc = "none" /\ r[i].val \in DOMAIN good}

\* what the fetch must return over the behaviours r: the literal of the first
\* answering endpoint and its position, else the fallback after all of them
FirstValid(r, good, fallback) ==
    LET a == Answering(r, good)
        first == CHOOSE i \in a : \A j \in a : i <= j
    IN  IF a = {} THEN [ip |-> fallback, contacted |-> Len(r)]
        ELSE [ip |-> good[r[first].val], contacted |-> first]

\* C11: get_public_ips returns two non-empty addresses and no endpoint failure
\* reaches the caller; on a refresh each family's address is the trimmed body of
\* the first endpoint, in list order, whose body is a literal of the family, the
\* endpoints up to it are contacted once each and none after it, and when no
\* endpoint answers one the address is 127.0.0.1 (IPv4) or ::1 (IPv6).
C11_FetchFirstValidOrFallback ==
    \A t \in Threads :
        /\ pc[t] \in {"reply", "done"} =>
              /\ loc[t].ipv4_address \notin {"", NoneVal}
              /\ loc[t].ipv6_address \notin {"", NoneVal}
        /\ Resolved(t) => reply[t].exc = "none"
        /\ (pc[t] \in {"write4", "write6", "writeT", "reply", "done"}
              /\ loc[t].path = "refresh") =>
              /\ [ip |-> loc[t].ipv4_address, contacted |-> loc[t].n4]
                    = FirstValid(loc[t].r4, Good4, "127.0.0.1")
              /\ [ip |-> loc[t].ipv6_address, contacted |-> loc[t].n6]
                    = FirstValid(loc[t].r6, Good6, "::1")

\* a refresh whose first IPv4 service timed out, whose second sent HTML and whose
\* third sent an address took the third's, not the fourth's, and fell back to ::1
\* when one IPv6 service timed out and the other sent an IPv4 address
C11_Witness ==
    /\ Resolved(1) /\ loc[1].path = "refresh"
    /\ loc[1].r4 = <<Timeout, Ok("<html>"), Ok(" 203.0.113.5\n"), Ok("198.51.100.9")>>
    /\ loc[1].r6 = <<Timeout, Ok("203.0.113.5")>>
    /\ loc[1].ipv4_address = "203.0.113.5" /\ loc[1].n4 = 3
    /\ loc[1].ipv6_address = "::1" /\ loc[1].n6 = 2

\* the first labels, other than plain decimals, that Python's int() parses to a
\* value in 0..32, with the value
OddPrefixValue ==
    [x \in {"024", "00", "032", "+24", "-0", "2_4", " 24", "24 "} |->
        IF x \in {"00", "-0"} THEN 0 ELSE IF x = "032" THEN 32 ELSE 24]

\* the label passes the integer parse and the range check of rules 1 and 2
ParsesInRange(x) == PlainPrefix(x) \/ x \in DOMAIN OddPrefixValue

PrefixValue(x) == IF PlainPrefix(x) THEN DecValue(x) ELSE OddPrefixValue[x]

\* the one rule the labels of an extracted name select, the rules read in order
RuleOf(ls) ==
    IF Len(ls) = 2 /\ ls[2] = "cidr" /\ ParsesInRange(ls[1]) THEN "cidr"
    ELSE IF Len(ls) = 3 /\ ls[2] = "mask" /\ ls[3] = "cidr" /\ ParsesInRange(ls[1])
         THEN "mask"
    ELSE IF ls = <<"time">> THEN "time"
    ELSE IF ls = <<"ip">> THEN "ip"
    ELSE IF ls = <<"myip">> THEN "myip"
    ELSE IF Len(ls) > 1 /\ ls[1] = "b64" THEN "b64"
    ELSE IF Len(ls) > 1 /\ ls[1] = "d64" THEN "d64"
    ELSE "none"

\* the reply of thread t is the one the handler of rule h builds for its query
AnsweredBy(t, h, ls) ==
    CASE h = "cidr" -> reply[t] = _resolve_cidr(req[t].qtype, PrefixValue(ls[1]))
      [] h = "mask" -> reply[t] = _resolve_subnet_mask(req[t].qtype, PrefixValue(ls[1]))
      [] h = "time" -> \E k \in 0..MaxTicks :
                           reply[t] = _resolve_time(req[t].qtype, StartTime + k * TickStep)
      [] h = "ip" -> reply[t] = _resolve_server_ip(req[t].qtype,
                                    <<loc[t].ipv4_address, loc[t].ipv6_address>>)
      [] h = "myip" -> reply[t] = _resolve_client_ip(req[t].qtype, req[t].client)
      [] h = "b64" -> reply[t] = _resolve_b64_encode(req[t].qtype, join(".", Tail(ls)))
      [] h = "d64" -> reply[t] = _resolve_b64_decode(req[t].qtype, Cat(Tail(ls)))
      [] OTHER -> reply[t] = Ok(<<>>)

\* the query type every handler answers
ServedType(h) == IF h = "mask" THEN "A" ELSE "TXT"

\* C12: classification is total and first-match-wins: the reply to every name is
\* the reply of exactly the first rule, in the order cidr, mask, time, ip, myip, b64,
\* d64, that the name matches; a CIDR-shaped name whose first label fails the
\* integer parse or the 0..32 range check goes on to the later rules (b64.cidr is
\* answered as the base64 of "cidr"); a name matching no rule gets zero answers,
\* and a name matching a rule gets an answer for the type its handler serves.
C12_FirstMatchWins ==
    \A t \in Threads :
        Resolved(t) =>
            LET ls == split(_extract_query(req[t].qname), ".")
                h == RuleOf(ls)
            IN  /\ AnsweredBy(t, h, ls)
                /\ (h # "none" /\ req[t].qtype = ServedType(h)) => Len(reply[t].val) = 1

\* b64.cidr, CIDR-shaped with a label int() rejects, was answered by the b64 rule,
\* and 33.cidr, abc.cidr and bare b64 are names that end with no answer
C12_Witness ==
    /\ Resolved(1) /\ req[1].qname = "b64.cidr" /\ req[1].qtype = "TXT"
    /\ reply[1] = Ok(<<RR("TXT", "Y2lkcg==")>>)
    /\ \A n \in {"33.cidr", "abc.cidr", "b64"} :
          n \in Names /\ RuleOf(split(_extract_query(n), ".")) = "none"

=============================================================================
